---- MODULE Spec2Model ----
(***************************************************************************)
(* Model of the two synchronisation scripts of Odoo_FG_STOCK_Automation:   *)
(*   FG_stock_data_pull.py      (login, switch_company,                    *)
(*                               fetch_operation_details, process_data,    *)
(*                               paste_to_gsheet, main loop)               *)
(*   FG_stock_dashboard_data.py (login, switch_company,                    *)
(*                               fetch_fg_store_datas / flatten_record,    *)
(*                               save_records_to_excel,                    *)
(*                               paste_downloaded_file_to_gsheet, main)    *)
(*                                                                         *)
(* Three specifications share the variables:                               *)
(*   Spec         one or more runs of either script, company by company;   *)
(*   SpecFlatten  flatten_record applied once and twice to a raw record;   *)
(*   SpecProcess  pd.DataFrame(data) followed by process_data.             *)
(***************************************************************************)
EXTENDS Naturals, Sequences, FiniteSets, TLC

VARIABLES
    script,          \* which of the two scripts is running
    run,             \* number of the current run (runs share disk and sheet)
    today,           \* date.today() of the current run, as a day number
    pc,              \* position of the main program
    ci,              \* index into the company list of the main loop
    USER_ID,         \* the module global USER_ID (0 is None)
    sessionCompany,  \* server-side company of the session (0: not switched)
    payload,         \* value handed from the fetch to the next stage
    log,             \* what the current run has done, in order
    files,           \* the download directory: company -> day -> file
    sheet,           \* the remote worksheets: company -> content
    failure,         \* stage whose exception left the program ("" if none)
    frec, fonce, ftwice, fpc,     \* SpecFlatten: input, f(x), f(f(x)), position
    pdata, pdf, pout, ppc         \* SpecProcess: data, DataFrame, result, position

vars == << script, run, today, pc, ci, USER_ID, sessionCompany, payload, log,
           files, sheet, failure, frec, fonce, ftwice, fpc,
           pdata, pdf, pout, ppc >>

mainVars == << script, run, today, pc, ci, USER_ID, sessionCompany, payload,
               log, files, sheet, failure >>
flattenVars == << frec, fonce, ftwice, fpc >>
processVars == << pdata, pdf, pout, ppc >>

(***************************************************************************)
(* JSON / Python values.  Every value is a record whose field names tell   *)
(* its type, so that values of different types compare as unequal.         *)
(* A dict keeps its keys in insertion order, as Python's does.             *)
(***************************************************************************)
Str(s) == [str |-> s]
Int(n) == [int |-> n]
False == [bool |-> FALSE]
None == [none |-> TRUE]
NaN == [nan |-> TRUE]
List(l) == [list |-> l]
MkDict(keys, at) == [keys |-> keys, at |-> at]
EmptyDict == MkDict(<<>>, <<>>)
Dict1(k, v) == MkDict(<<k>>, [x \in {k} |-> v])
Dict2(k1, v1, k2, v2) == MkDict(<<k1, k2>>, [x \in {k1, k2} |-> IF x = k1 THEN v1 ELSE v2])

\* isinstance(v, list)
IsList(v) == DOMAIN v = {"list"}
\* isinstance(v, dict)
IsDict(v) == DOMAIN v = {"keys", "at"}
\* "k" in d
HasKey(d, k) == k \in DOMAIN d.at
\* d.get(k): the value, None when the key is absent
Get(d, k) == IF HasKey(d, k) THEN d.at[k] ELSE None

Range(s) == {s[i] : i \in DOMAIN s}

(***************************************************************************)
(* fetch_fg_store_datas.flatten_record                                     *)
(***************************************************************************)
\* lines 152-153 with len(v) >= 2 for len(v) == 2
FlattenValueLongLists(v) ==
    IF IsList(v) /\ Len(v.list) >= 2 THEN v.list[2]
    ELSE IF IsDict(v) /\ HasKey(v, "display_name") THEN Get(v, "display_name")
    ELSE v

\* lines 152-153: the value one field is reduced to
FlattenValue(v) ==
    IF IsList(v) /\ Len(v.list) = 2 THEN v.list[2]
    ELSE IF IsDict(v) /\ HasKey(v, "display_name") THEN Get(v, "display_name")
    ELSE v

\* lines 150-155: the comprehension over record.items()
flatten_record(record) ==
    MkDict(record.keys, [k \in DOMAIN record.at |-> FlattenValue(record.at[k])])

(***************************************************************************)
(* Bounded raw records for SpecFlatten.                                    *)
(***************************************************************************)
MaxDepth == 2

Scalars == {Str("Acme Corp"), Int(7), False}

\* One more level of nesting around the values of S: sequences of length
\* 0 to 3 and mappings with and without a display_name key.
Wrap(S) ==
    S \cup {List(<<>>)}
      \cup {List(<<x>>) : x \in S}
      \cup {List(<<Int(7), x>>) : x \in S}
      \cup {List(<<Int(7), x, x>>) : x \in S}
      \cup {Dict1("display_name", x) : x \in S}
      \cup {Dict1("code", x) : x \in S}

RECURSIVE ValuesOfDepth(_)
ValuesOfDepth(d) == IF d = 0 THEN Scalars ELSE Wrap(ValuesOfDepth(d - 1))

RawRecords ==
    {Dict1("partner_id", v) : v \in ValuesOfDepth(MaxDepth)}
      \cup {Dict2("partner_id", v, "name", w) :
                v \in ValuesOfDepth(MaxDepth), w \in ValuesOfDepth(1)}

\* A value flatten_record reduces further: a relation pair or a labelled mapping.
Reducible(v) ==
    \/ IsList(v) /\ Len(v.list) = 2
    \/ IsDict(v) /\ HasKey(v, "display_name")

\* The label of every relation pair and labelled mapping of the record is
\* itself not reducible (it is a display scalar or another passed-through value).
FlatLabels(record) ==
    \A k \in DOMAIN record.at :
        LET v == record.at[k] IN
        /\ (IsList(v) /\ Len(v.list) = 2) => ~Reducible(v.list[2])
        /\ (IsDict(v) /\ HasKey(v, "display_name")) => ~Reducible(Get(v, "display_name"))

Idle == Str("idle")

FlattenIdle ==
    /\ frec = Idle /\ fonce = Idle /\ ftwice = Idle /\ fpc = "idle"

InitFlattenVars ==
    /\ frec \in RawRecords
    /\ fonce = Idle
    /\ ftwice = Idle
    /\ fpc = "start"

\* record -> flatten_record(record)
FlattenOnce ==
    /\ fpc = "start"
    /\ fonce' = flatten_record(frec)
    /\ fpc' = "once"
    /\ UNCHANGED << frec, ftwice, mainVars, processVars >>

\* flatten_record(record) -> flatten_record(flatten_record(record))
FlattenTwice ==
    /\ fpc = "once"
    /\ ftwice' = flatten_record(fonce)
    /\ fpc' = "twice"
    /\ UNCHANGED << frec, fonce, mainVars, processVars >>

(***************************************************************************)
(* FG_stock_data_pull.py: pd.DataFrame(data) and process_data              *)
(***************************************************************************)
\* The dict literal of process_data: output column, source key, in order.
FieldMap ==
    <<
       <<"OA", "oa_name">>,
       <<"Order Date", "date_order">>,
       <<"Closing Date", "closing_date">>,
       <<"Sample", "sample">>,
       <<"PI", "pi">>,
       <<"Customer", "partner_id">>,
       <<"Buyer", "buyer_id">>,
       <<"Invoice No", "invoice_line_id">>,
       <<"Invoice Date", "invoice_date">>,
       <<"LC Number", "lc_number">>,
       <<"LC Date", "lc_date">>,
       <<"Sales Person", "sales_person">>,
       <<"Region", "region">>,
       <<"DSM", "dsm">>,
       <<"Item", "fg_categ_type">>,
       <<"Product", "product_id">>,
       <<"Order QTY", "order_qty">>,
       <<"Order Value", "order_value">>,
       <<"Recived QTY", "received_qty">>,
       <<"Recived Value", "received_value">>,
       <<"Goods In Date", "goods_in_date">>,
       <<"Delivered QTY", "delivered_qty">>,
       <<"Delivered Value", "delivered_value">>,
       <<"Delivered Date", "delivery_date">>,
       <<"Pending QTY", "pending_qty">>,
       <<"Stock QTY", "stock_qty">>,
       <<"Stock Value", "stock_value">>,
       <<"Age", "days_passed">>,
       <<"Invoice QTY", "invoice_qty">>,
       <<"Invoice Value", "invoice_value">>
    >>

OutputColumns == {FieldMap[i][1] : i \in DOMAIN FieldMap}
SourceKeys == {FieldMap[i][2] : i \in DOMAIN FieldMap}
SourceOf(col) == (CHOOSE i \in DOMAIN FieldMap : FieldMap[i][1] = col)
ColumnSeq == [i \in DOMAIN FieldMap |-> FieldMap[i][1]]

\* The keys of dict d that seq does not hold yet, appended in d's order.
RECURSIVE AppendNew(_, _, _)
AppendNew(seq, keys, i) ==
    IF i > Len(keys) THEN seq
    ELSE AppendNew(IF keys[i] \in Range(seq) THEN seq ELSE Append(seq, keys[i]), keys, i + 1)

RECURSIVE ColumnOrder(_, _)
ColumnOrder(data, i) ==
    IF i = 0 THEN << >> ELSE AppendNew(ColumnOrder(data, i - 1), data[i].keys, 1)

\* pd.DataFrame(data) for a list of dicts: one row per dict, one column per
\* key that occurs in any of them (in order of first occurrence), NaN where
\* a dict lacks the key.
DataFrame(data) ==
    LET cols == ColumnOrder(data, Len(data))
    IN  [cols |-> cols,
         rows |-> [i \in DOMAIN data |->
                     [k \in Range(cols) |->
                         IF HasKey(data[i], k) THEN data[i].at[k] ELSE NaN]]]

\* df.empty: no rows or no columns
IsEmpty(df) == Len(df.cols) = 0 \/ Len(df.rows) = 0

\* Series.get(key): the cell, None when the frame has no such column
SeriesGet(row, k) == IF k \in DOMAIN row THEN row[k] ELSE None

\* line 111 with the conditional reversed: the fallback key is preferred
EntriesFallbackFirst(row) ==
    IF IsList(SeriesGet(row, "delivery_data")) THEN SeriesGet(row, "delivery_data")
    ELSE SeriesGet(row, "datas")

\* line 111: row.get('datas') if it is a list, else row.get('delivery_data')
Entries(row) ==
    IF IsList(SeriesGet(row, "datas")) THEN SeriesGet(row, "datas")
    ELSE SeriesGet(row, "delivery_data")

\* lines 115-146 copying the line item's own keys beside the mapped ones
MapEntryAllKeys(e) ==
    [c \in OutputColumns \cup DOMAIN e.at |->
        IF c \in OutputColumns THEN Get(e, FieldMap[SourceOf(c)][2]) ELSE e.at[c]]

\* lines 115-146: the row appended for line item e
MapEntry(e) == [c \in OutputColumns |-> Get(e, FieldMap[SourceOf(c)][2])]

\* lines 112-113 without the isinstance guard: a container without a
\* sequence yields a row of nulls
RowsOfContainerNullRow(row) ==
    IF ~IsList(Entries(row)) THEN << MapEntry(EmptyDict) >>
    ELSE [j \in DOMAIN Entries(row).list |-> MapEntry(Entries(row).list[j])]

\* lines 111-146: the rows one container contributes
RowsOfContainer(row) ==
    IF ~IsList(Entries(row)) THEN << >>
    ELSE [j \in DOMAIN Entries(row).list |-> MapEntry(Entries(row).list[j])]

\* e.get raises AttributeError when a line item is not a mapping
ContainerRaises(row) ==
    /\ IsList(Entries(row))
    /\ \E j \in DOMAIN Entries(row).list : ~IsDict(Entries(row).list[j])

RECURSIVE ConcatRows(_, _)
ConcatRows(rows, i) ==
    IF i > Len(rows) THEN << >>
    ELSE RowsOfContainer(rows[i]) \o ConcatRows(rows, i + 1)

\* process_data(df): pd.DataFrame(all_rows), or the exception of e.get
process_data(df) ==
    IF \E i \in DOMAIN df.rows : ContainerRaises(df.rows[i])
    THEN [raised |-> TRUE, cols |-> << >>, rows |-> << >>]
    ELSE LET all_rows == ConcatRows(df.rows, 1)
         IN  [raised |-> FALSE,
              cols |-> IF all_rows = << >> THEN << >> ELSE ColumnSeq,
              rows |-> all_rows]

(***************************************************************************)
(* Bounded report payloads for SpecProcess.                                *)
(***************************************************************************)
MaxContainers == 2

Absent == [absent |-> TRUE]

Item0 == EmptyDict
Item1 == Dict2("oa_name", Str("OA1"), "order_qty", Int(5))
Item2 == Dict1("oa_name", Str("OA2"))
Item3 == Dict2("oa_name", Str("OA3"), "remarks", Str("urgent"))

DatasOptions ==
    {Absent, Str("not-a-list"), None, Dict1("oa_name", Str("OA9")),
     List(<< >>), List(<< Item1 >>), List(<< Item1, Item0 >>), List(<< Int(5) >>)}

DeliveryOptions ==
    {Absent, False, List(<< Item2 >>), List(<< Item3, Item2 >>)}

Container(d, dd) ==
    IF d = Absent /\ dd = Absent THEN Dict1("report", Str("R"))
    ELSE IF d = Absent THEN Dict1("delivery_data", dd)
    ELSE IF dd = Absent THEN Dict1("datas", d)
    ELSE Dict2("datas", d, "delivery_data", dd)

Containers == {Container(d, dd) : d \in DatasOptions, dd \in DeliveryOptions}

RECURSIVE SeqsUpTo(_, _)
SeqsUpTo(S, n) ==
    IF n = 0 THEN {<< >>}
    ELSE SeqsUpTo(S, n - 1) \cup
         {Append(s, x) : s \in {t \in SeqsUpTo(S, n - 1) : Len(t) = n - 1}, x \in S}

ProcessIdle ==
    /\ pdata = Idle /\ pdf = Idle /\ pout = Idle /\ ppc = "idle"

InitProcessVars ==
    /\ pdata \in SeqsUpTo(Containers, MaxContainers)
    /\ pdf = Idle
    /\ pout = Idle
    /\ ppc = "start"

\* line 103: df = pd.DataFrame(data)
BuildDataFrame ==
    /\ ppc = "start"
    /\ pdf' = DataFrame(pdata)
    /\ ppc' = "frame"
    /\ UNCHANGED << pdata, pout, mainVars, flattenVars >>

\* line 170: df = process_data(raw_df)
ProcessData ==
    /\ ppc = "frame"
    /\ pout' = process_data(pdf)
    /\ ppc' = "done"
    /\ UNCHANGED << pdata, pdf, mainVars, flattenVars >>


(***************************************************************************)
(* The runs of the two scripts.                                            *)
(***************************************************************************)
MaxRuns == 2

Scripts == {"pull", "dashboard"}

\* COMPANIES / target_companies: the ids, in the dicts' order
CompanyList == << "1", "3" >>
CompanyIds == Range(CompanyList)

\* re.sub(r'\W+', '_', cname.lower()) of the two company names
Slug(c) == IF c = "1" THEN "zipper" ELSE "metal_trims"
\* the keys of SHEET_INFO
SheetInfoKeys == {"zipper", "metal_trims"}

Days == 1 .. MaxRuns
NoFile == [nofile |-> TRUE]
BlankFrame == [cols |-> << >>, rows |-> << >>]

\* Outcomes of one HTTP call to the ERP: the result, an RPC-level error in
\* the JSON body, or a failure raised by raise_for_status / the transport.
RpcOutcomes == {"ok", "rpc_error", "http_error"}
\* Where an exception is raised inside a publish ("none": nowhere)
PublishStages == {"none", "open", "clear", "write", "stamp"}

\* r.json().get("result", []) of retrive_data_from_operation_details
PullResults ==
    { << >>,
      << Container(List(<< Item1 >>), Absent) >>,
      << Container(Str("not-a-list"), List(<< Item2 >>)) >>,
      << Container(None, Absent) >>,
      << Container(List(<< Int(5) >>), Absent) >> }

\* r.json() of retrieve_fg_store_datas: without a "result" key, with a
\* result that is no list, or with a list of records
NoResult == [error |-> TRUE]
DashResponses ==
    { NoResult,
      False,
      List(<< >>),
      List(<< Dict2("id", Int(7), "partner_id", List(<< Int(7), Str("Acme Corp") >>)) >>),
      List(<< Int(5), Dict1("name", False) >>),
      List(<< EmptyDict >>) }

\* lines 147-164: the records fetch_fg_store_datas returns for a response
RECURSIVE FlattenDicts(_, _)
FlattenDicts(data, i) ==
    IF i > Len(data) THEN << >>
    ELSE (IF IsDict(data[i]) THEN << flatten_record(data[i]) >> ELSE << >>)
            \o FlattenDicts(data, i + 1)

ParseFgStoreDatas(resp) ==
    IF resp = NoResult THEN << >>              \* KeyError, caught
    ELSE IF ~IsList(resp) THEN << >>           \* unexpected data format
    ELSE FlattenDicts(resp.list, 1)

\* df.to_excel(output_file, index=False): header row and cells, no index
\* column; None and NaN are written as empty cells
ToExcel(df) ==
    [cols |-> df.cols,
     rows |-> [i \in DOMAIN df.rows |->
                 [k \in DOMAIN df.rows[i] |->
                     IF df.rows[i][k] \in {None, NaN} THEN NaN ELSE df.rows[i][k]]]]

\* pd.read_excel(latest_file): a sheet without header cells loads as an
\* empty frame
ReadExcel(content) ==
    IF Len(content.cols) = 0 THEN BlankFrame ELSE content

\* lines 193-194: if df.shape[1] > 1: df = df.iloc[:, 1:]
DropFirstColumn(df) ==
    IF Len(df.cols) > 1
    THEN [cols |-> Tail(df.cols),
          rows |-> [i \in DOMAIN df.rows |->
                      [k \in Range(Tail(df.cols)) |-> df.rows[i][k]]]]
    ELSE df

\* line 208: df.replace(False, "")
ReplaceFalse(df) ==
    [cols |-> df.cols,
     rows |-> [i \in DOMAIN df.rows |->
                 [k \in DOMAIN df.rows[i] |->
                     IF df.rows[i][k] = False THEN Str("") ELSE df.rows[i][k]]]]

\* the files glob() finds for the company, and the most recently modified
FilesOf(c) == {d \in Days : files[c][d] # NoFile}
LatestDay(c) ==
    CHOOSE d \in FilesOf(c) : \A e \in FilesOf(c) : files[c][e].mtime <= files[c][d].mtime

\* the worksheet calls a publish completes when an exception is raised at
\* stage failAt, with the timestamp written before the table
PublishOpsStampFirst(failAt) ==
    CASE failAt = "open"  -> << >>
      [] failAt = "clear" -> << >>
      [] failAt = "write" -> << "stamp", "clear" >>
      [] failAt = "stamp" -> << "clear", "write" >>
      [] OTHER            -> << "stamp", "clear", "write" >>

\* the worksheet calls a publish completes when an exception is raised at
\* stage failAt: batch_clear, set_with_dataframe, update, in that order
PublishOps(failAt) ==
    CASE failAt = "open"  -> << >>
      [] failAt = "clear" -> << >>
      [] failAt = "write" -> << "clear" >>
      [] failAt = "stamp" -> << "clear", "write" >>
      [] OTHER            -> << "clear", "write", "stamp" >>

\* the worksheet after the calls ops, made in run r with table df
RECURSIVE ApplyOps(_, _, _, _)
ApplyOps(ws, ops, df, r) ==
    IF ops = << >> THEN ws
    ELSE ApplyOps(
            CASE Head(ops) = "clear" -> [ws EXCEPT !.table = BlankFrame]
              [] Head(ops) = "write" -> [ws EXCEPT !.table = df]
              [] OTHER               -> [ws EXCEPT !.stamp = r],
            Tail(ops), df, r)

\* the main loop moves on to the next company, or ends
Advance ==
    IF ci < Len(CompanyList)
    THEN ci' = ci + 1 /\ pc' = "switch"
    ELSE ci' = ci /\ pc' = "done"

\* an exception nothing catches ends the program
Abort(stage) ==
    /\ pc' = "aborted"
    /\ failure' = stage
    /\ ci' = ci

Company == CompanyList[ci]

MainIdle ==
    /\ script = "none" /\ run = 0 /\ today = 0 /\ pc = "idle" /\ ci = 0
    /\ USER_ID = "None" /\ sessionCompany = "none" /\ payload = Idle
    /\ log = << >> /\ files = Idle /\ sheet = Idle /\ failure = ""

InitMainVars ==
    /\ script \in Scripts
    /\ run = 1
    /\ today = 1
    /\ pc = "login"
    /\ ci = 1
    /\ USER_ID = "None"
    /\ sessionCompany = "none"
    /\ payload = Idle
    /\ log = << >>
    /\ files = [c \in CompanyIds |-> [d \in Days |-> NoFile]]
    /\ sheet = [c \in CompanyIds |-> [table |-> BlankFrame, stamp |-> 0]]
    /\ failure = ""

\* login(): sets USER_ID, or raises
Login ==
    /\ pc = "login"
    /\ \E outcome \in {"ok", "fail"} :
          IF outcome = "ok"
          THEN /\ USER_ID' = "uid"
               /\ pc' = "switch"
               /\ UNCHANGED << ci, failure >>
          ELSE /\ USER_ID' = USER_ID
               /\ Abort("login")
    /\ UNCHANGED << script, run, today, sessionCompany, payload, log, files, sheet,
                   flattenVars, processVars >>

\* switch_company's return value with a reported RPC error taken for success
SwitchConfirmedAlways(outcome) == TRUE

\* switch_company's return value: False when "error" is in the response
SwitchConfirmed(outcome) == outcome = "ok"

\* switch_company(cid) and the main loop's test of its result
SwitchCompany ==
    /\ pc = "switch"
    /\ \E outcome \in RpcOutcomes :
          IF (script = "dashboard" /\ USER_ID = "None") \/ outcome = "http_error"
          THEN /\ Abort("switch")
               /\ UNCHANGED << sessionCompany, log >>
          ELSE /\ sessionCompany' = IF outcome = "ok" THEN Company ELSE sessionCompany
               /\ log' = Append(log, [op |-> "switch", c |-> Company, ok |-> outcome = "ok"])
               /\ failure' = failure
               /\ IF SwitchConfirmed(outcome)
                  THEN pc' = "fetch" /\ ci' = ci
                  ELSE Advance
    /\ UNCHANGED << script, run, today, USER_ID, payload, files, sheet,
                   flattenVars, processVars >>

\* fetch_operation_details(cid, cid)
FetchOperationDetails ==
    /\ pc = "fetch" /\ script = "pull"
    /\ \E outcome \in {"ok", "http_error"}, data \in PullResults :
          IF outcome = "http_error"
          THEN /\ data = << >>
               /\ Abort("fetch")
               /\ UNCHANGED payload
          ELSE /\ payload' = DataFrame(data)
               /\ pc' = "process"
               /\ UNCHANGED << ci, failure >>
    /\ log' = Append(log, [op |-> "fetch", c |-> Company, session |-> sessionCompany])
    /\ UNCHANGED << script, run, today, USER_ID, sessionCompany, files, sheet,
                   flattenVars, processVars >>

\* df = process_data(raw_df)
ProcessFetched ==
    /\ pc = "process"
    /\ LET out == process_data(payload) IN
          IF out.raised
          THEN Abort("process") /\ UNCHANGED payload
          ELSE /\ payload' = [cols |-> out.cols, rows |-> out.rows]
               /\ pc' = "paste"
               /\ UNCHANGED << ci, failure >>
    /\ UNCHANGED << script, run, today, USER_ID, sessionCompany, log, files, sheet,
                   flattenVars, processVars >>

\* paste_to_gsheet(df, info["sheet"]); nothing catches what it raises
PasteToGsheet ==
    /\ pc = "paste" /\ script = "pull"
    /\ \E failAt \in PublishStages :
          /\ IsEmpty(payload) => failAt \in {"none", "open"}
          /\ LET ops == IF IsEmpty(payload) THEN << >> ELSE PublishOps(failAt) IN
                /\ sheet' = [sheet EXCEPT ![Company] = ApplyOps(@, ops, payload, run)]
                /\ log' = Append(log, [op |-> "publish", c |-> Company, ops |-> ops,
                                       empty |-> IsEmpty(payload), failed |-> failAt # "none",
                                       source |-> run, saved |-> payload.cols,
                                       written |-> payload.cols])
          /\ IF failAt # "none" THEN Abort("publish")
             ELSE Advance /\ failure' = failure
    /\ UNCHANGED << script, run, today, USER_ID, sessionCompany, payload, files,
                   flattenVars, processVars >>

\* fetch_fg_store_datas(cid, cname, FROM_DATE, TO_DATE)
FetchFgStoreDatas ==
    /\ pc = "fetch" /\ script = "dashboard"
    /\ \E outcome \in {"ok", "http_error"}, resp \in DashResponses :
          IF outcome = "http_error"
          THEN /\ resp = NoResult
               /\ Abort("fetch")
               /\ UNCHANGED payload
          ELSE /\ payload' = ParseFgStoreDatas(resp)
               /\ pc' = "save"
               /\ UNCHANGED << ci, failure >>
    /\ log' = Append(log, [op |-> "fetch", c |-> Company, session |-> sessionCompany])
    /\ UNCHANGED << script, run, today, USER_ID, sessionCompany, files, sheet,
                   flattenVars, processVars >>

\* save_records_to_excel(records, cname); nothing catches what to_excel raises
SaveRecordsToExcel ==
    /\ pc = "save"
    /\ \E io \in {"ok", "error"} :
          IF payload = << >>
          THEN /\ io = "ok"
               /\ pc' = "paste"
               /\ log' = Append(log, [op |-> "save", c |-> Company, wrote |-> FALSE])
               /\ UNCHANGED << ci, failure, files >>
          ELSE IF io = "error"
          THEN /\ Abort("save")
               /\ UNCHANGED << files, log >>
          ELSE /\ files' = [files EXCEPT ![Company][today] =
                               [mtime |-> run, content |-> ToExcel(DataFrame(payload))]]
               /\ pc' = "paste"
               /\ log' = Append(log, [op |-> "save", c |-> Company, wrote |-> TRUE])
               /\ UNCHANGED << ci, failure >>
    /\ UNCHANGED << script, run, today, USER_ID, sessionCompany, payload, sheet,
                   flattenVars, processVars >>

\* the SHEET_INFO lookup and paste_downloaded_file_to_gsheet; the function
\* catches and logs what it raises
PasteDownloadedFileToGsheet ==
    /\ pc = "paste" /\ script = "dashboard"
    /\ IF Slug(Company) \notin SheetInfoKeys \/ FilesOf(Company) = {}
       THEN UNCHANGED << sheet, log >>
       ELSE \E failAt \in PublishStages :
              LET file == files[Company][LatestDay(Company)]
                  loaded == ReadExcel(file.content)
                  df == DropFirstColumn(loaded)
                  ops == IF IsEmpty(df) THEN << >> ELSE PublishOps(failAt)
              IN  /\ IsEmpty(df) => failAt \in {"none", "open"}
                  /\ sheet' = [sheet EXCEPT ![Company] =
                                  ApplyOps(@, ops, ReplaceFalse(df), run)]
                  /\ log' = Append(log, [op |-> "publish", c |-> Company, ops |-> ops,
                                         empty |-> IsEmpty(df), failed |-> failAt # "none",
                                         source |-> file.mtime, saved |-> file.content.cols,
                                         written |-> df.cols])
    /\ Advance
    /\ UNCHANGED << script, run, today, USER_ID, sessionCompany, payload, files, failure,
                   flattenVars, processVars >>

\* the script is started again, the same day or a later one: a new process
\* and a new session; the download directory and the workbook remain
NewRun ==
    /\ pc \in {"done", "aborted"}
    /\ run < MaxRuns
    /\ run' = run + 1
    /\ \E d \in {today, today + 1} : today' = d
    /\ pc' = "login"
    /\ ci' = 1
    /\ USER_ID' = "None"
    /\ sessionCompany' = "none"
    /\ payload' = Idle
    /\ log' = << >>
    /\ failure' = ""
    /\ UNCHANGED << script, files, sheet,
                   flattenVars, processVars >>

(***************************************************************************)
(* Specifications                                                          *)
(***************************************************************************)
Init == InitMainVars /\ FlattenIdle /\ ProcessIdle

Next ==
    \/ Login
    \/ SwitchCompany
    \/ FetchOperationDetails
    \/ ProcessFetched
    \/ PasteToGsheet
    \/ FetchFgStoreDatas
    \/ SaveRecordsToExcel
    \/ PasteDownloadedFileToGsheet
    \/ NewRun

Spec == Init /\ [][Next]_vars

InitFlatten == MainIdle /\ ProcessIdle /\ InitFlattenVars

NextFlatten == FlattenOnce \/ FlattenTwice

SpecFlatten == InitFlatten /\ [][NextFlatten]_vars

InitProcess == MainIdle /\ FlattenIdle /\ InitProcessVars

NextProcess == BuildDataFrame \/ ProcessData

SpecProcess == InitProcess /\ [][NextProcess]_vars


(***************************************************************************)
(* Properties                                                              *)
(***************************************************************************)
Events(kind) == {i \in DOMAIN log : log[i].op = kind}

\* C1: a failure after authentication succeeded (tenant switch, fetch,
\* flattening, local save, remote publish) never ends the run: only a
\* failed login leaves the program by an exception.
C1_OnlyLoginFailureEndsTheRun ==
    pc = "aborted" => failure = "login"

\* C2: flatten_record is idempotent on every raw record, nested values
\* included: flattening the flattened record changes nothing.
C2_FlattenIdempotent ==
    fpc = "twice" => ftwice = fonce

\* C2 (amended): flatten_record is idempotent on every raw record in which
\* the label of each two-element sequence and the display_name of each
\* mapping is itself neither a two-element sequence nor a mapping with a
\* display_name key.
C2_FlattenIdempotentOnFlatLabels ==
    (fpc = "twice" /\ FlatLabels(frec)) => ftwice = fonce

C2_Witness ==
    /\ fpc = "twice"
    /\ FlatLabels(frec)
    /\ frec.at["partner_id"] = List(<< Int(7), Str("Acme Corp") >>)
    /\ HasKey(frec, "name") /\ frec.at["name"] = Dict1("display_name", False)
    /\ fonce.at["partner_id"] = Str("Acme Corp")
    /\ fonce.at["name"] = False
    /\ ftwice = fonce

\* the table the publish of the current company is about to be given
TableToPublish ==
    IF script = "pull" THEN payload
    ELSE DropFirstColumn(ReadExcel(files[Company][LatestDay(Company)].content))

HasTableToPublish ==
    /\ pc = "paste"
    /\ script = "dashboard" => FilesOf(Company) # {}

\* C3: a publish whose row table is empty issues no clear, no table write
\* and no timestamp write, leaves the worksheet as it was, and returns
\* without raising.
C3_EmptyTablePublishesNothing ==
    [][ (HasTableToPublish /\ IsEmpty(TableToPublish) /\ pc' # pc)
            => (sheet' = sheet /\ pc' # "aborted") ]_vars

\* C4: every fetch for company c follows a confirmed switch to c of the same
\* run with no other switch in between, and is issued while the session's
\* company is c; after a switch to c that reported an RPC error the run
\* fetches, saves and publishes nothing for c.
C4_FetchOnlyAfterConfirmedSwitch ==
    /\ \A i \in Events("fetch") :
          /\ log[i].session = log[i].c
          /\ \E j \in Events("switch") :
                /\ j < i
                /\ log[j].c = log[i].c
                /\ log[j].ok
                /\ \A k \in Events("switch") : ~(j < k /\ k < i)
    /\ \A i \in Events("switch") :
          ~log[i].ok =>
             \A k \in DOMAIN log :
                log[k].op \in {"fetch", "save", "publish"} => log[k].c # log[i].c

C4_Witness ==
    /\ \E i \in Events("switch") : log[i].c = "1" /\ ~log[i].ok
    /\ \E i \in Events("fetch") : log[i].c = "3" /\ sessionCompany = "3"
    /\ pc = "done"

\* What the claims say of a container, read off the raw payload.
HoldsSequence(container, key) ==
    HasKey(container, key) /\ IsList(container.at[key])

NoSequence(container) ==
    ~HoldsSequence(container, "datas") /\ ~HoldsSequence(container, "delivery_data")

SelectedItems(container) ==
    IF HoldsSequence(container, "datas") THEN container.at["datas"].list
    ELSE IF HoldsSequence(container, "delivery_data") THEN container.at["delivery_data"].list
    ELSE << >>

RECURSIVE ExpectedItems(_, _)
ExpectedItems(data, i) ==
    IF i > Len(data) THEN << >>
    ELSE SelectedItems(data[i]) \o ExpectedItems(data, i + 1)

AllItemsAreMappings(data) ==
    \A j \in DOMAIN ExpectedItems(data, 1) : IsDict(ExpectedItems(data, 1)[j])

\* C5: the line items of a container are those under 'datas' when it holds
\* a sequence, else those under 'delivery_data' when that holds one; the
\* output has exactly one row per selected line item, in the order of the
\* containers and of their items, and none for the key not selected.
C5_OneRowPerSelectedItem ==
    (ppc = "done" /\ AllItemsAreMappings(pdata)) =>
        LET items == ExpectedItems(pdata, 1) IN
        /\ ~pout.raised
        /\ Len(pout.rows) = Len(items)
        /\ \A j \in DOMAIN items :
              /\ pout.rows[j]["OA"] = Get(items[j], "oa_name")
              /\ pout.rows[j]["Order QTY"] = Get(items[j], "order_qty")

C5_Witness ==
    /\ ppc = "done"
    /\ pdata = << Container(Str("not-a-list"), List(<< Item3, Item2 >>)),
                  Container(List(<< Item1, Item0 >>), List(<< Item2 >>)) >>
    /\ Len(pout.rows) = 4
    /\ pout.rows[1]["OA"] = Str("OA3")
    /\ pout.rows[3]["OA"] = Str("OA1")

AllNull(row) == \A c \in DOMAIN row : row[c] = None

\* C6: containers in which neither key holds a sequence contribute no row
\* and raise nothing: a payload of such containers gives an empty table,
\* and in any payload the rows of nulls are as many as the line items
\* without any mapped key, so none stems from a container without items.
C6_NoSequenceNoRows ==
    ppc = "done" =>
        /\ (\A i \in DOMAIN pdata : NoSequence(pdata[i])) =>
              (~pout.raised /\ pout.rows = << >> /\ pout.cols = << >>)
        /\ AllItemsAreMappings(pdata) =>
              LET items == ExpectedItems(pdata, 1) IN
              Cardinality({j \in DOMAIN pout.rows : AllNull(pout.rows[j])})
                 = Cardinality({j \in DOMAIN items : DOMAIN items[j].at \cap SourceKeys = {}})

C6_Witness ==
    /\ ppc = "done"
    /\ pdata = << Container(Dict1("oa_name", Str("OA9")), False), Container(None, Absent) >>
    /\ pout = [raised |-> FALSE, cols |-> << >>, rows |-> << >>]

\* C7: every output row has exactly the 30 columns of the field map as its
\* keys; a column whose source key the line item lacks holds None, and a
\* key of the line item that the field map does not list is in no row.
C7_RowsHaveExactlyTheFieldMapColumns ==
    (ppc = "done" /\ AllItemsAreMappings(pdata)) =>
        LET items == ExpectedItems(pdata, 1) IN
        /\ Cardinality(OutputColumns) = 30
        /\ pout.rows # << >> => pout.cols = ColumnSeq
        /\ \A j \in DOMAIN pout.rows :
              /\ DOMAIN pout.rows[j] = OutputColumns
              /\ \A i \in DOMAIN FieldMap :
                    pout.rows[j][FieldMap[i][1]] =
                        IF HasKey(items[j], FieldMap[i][2])
                        THEN items[j].at[FieldMap[i][2]] ELSE None

C7_Witness ==
    /\ ppc = "done"
    /\ \E j \in DOMAIN pout.rows :
          /\ pout.rows[j]["OA"] = Str("OA3")
          /\ pout.rows[j]["Order QTY"] = None
          /\ "remarks" \notin DOMAIN pout.rows[j]
          /\ DOMAIN pout.rows[j] = OutputColumns

\* C8: a publish clears the range, then writes the table, then writes the
\* timestamp cell; a publish of a non-empty table in which nothing fails
\* makes all three calls, and the timestamp is written in no publish in
\* which the clear or the table write failed or was skipped.
C8_ClearThenWriteThenStamp ==
    /\ \A c \in CompanyIds :
          sheet[c].stamp = run =>
             \E i \in Events("publish") :
                log[i].c = c /\ log[i].ops = << "clear", "write", "stamp" >>
    /\ \A i \in Events("publish") :
        /\ log[i].ops \in {<< >>, << "clear" >>, << "clear", "write" >>,
                           << "clear", "write", "stamp" >>}
        /\ (~log[i].empty /\ ~log[i].failed) => log[i].ops = << "clear", "write", "stamp" >>
        /\ log[i].failed => "stamp" \notin Range(log[i].ops)

C8_Witness ==
    /\ \E i \in Events("publish") :
          log[i].c = "1" /\ log[i].failed /\ log[i].ops = << "clear" >>
    /\ \E i \in Events("publish") :
          /\ log[i].c = "3" /\ log[i].ops = << "clear", "write", "stamp" >>
          /\ sheet["3"].stamp = run
          /\ ~IsEmpty(sheet["3"].table)

\* C9: in the dashboard script every table published in a run comes from
\* the records fetched for that company in that run, and a run that saved
\* no snapshot for the company publishes nothing for it.
C9_PublishedTableIsOfThisRun ==
    script = "dashboard" =>
        /\ \A i \in Events("publish") :
              "write" \in Range(log[i].ops) => log[i].source = run
        /\ \A i \in Events("save") :
              ~log[i].wrote =>
                 \A k \in Events("publish") :
                    log[k].c = log[i].c => log[k].ops = << >>

\* C10: in the dashboard script every column of the snapshot written by
\* save_records_to_excel is a column of the table written to the sheet.
C10_NoColumnLostBetweenSaveAndPublish ==
    script = "dashboard" =>
        \A i \in Events("publish") :
            "write" \in Range(log[i].ops) =>
                Range(log[i].saved) \subseteq Range(log[i].written)


====
